---- MODULE Spec2Model ----
(***************************************************************************)
(* Perturbed clustering solvers (jaxclust/_src/perturbations.py).          *)
(*                                                                         *)
(* make_pert_solver / make_pert_csolver wrap a discrete solver into a      *)
(* Monte-Carlo smoothed function forward_pert with a custom JVP rule       *)
(* pert_jvp.  Arrays are modelled as a shape together with their row-major *)
(* data; real numbers are exact rationals <<num, den>> (den > 0), with     *)
(* <<0, 0>> standing for the NaN that 0/0 produces.  The batched map       *)
(* jax.vmap(solver) is modelled as one solver invocation per sample,       *)
(* executed in any order.                                                  *)
(***************************************************************************)
EXTENDS Integers, Sequences, FiniteSets, TLC

VARIABLES wrapper, pc, args, samples, results, out, kept

vars == <<wrapper, pc, args, samples, results, out, kept>>

(***************************************************************************)
(* Bounds of the model.                                                    *)
(***************************************************************************)
MaxSamples == 2

None == [none |-> TRUE]

(***************************************************************************)
(* Exact real arithmetic.                                                  *)
(***************************************************************************)
Abs(x) == IF x < 0 THEN -x ELSE x

RECURSIVE Gcd(_, _)
Gcd(a, b) == IF b = 0 THEN a ELSE Gcd(b, a % b)

NaN == <<0, 0>>

IsNaN(q) == q[2] = 0

Norm(n, d) ==
  IF d = 0 THEN NaN
  ELSE LET g == Gcd(Abs(n), Abs(d))
           s == IF d < 0 THEN -1 ELSE 1
       IN <<(s * n) \div g, (s * d) \div g>>

R(n) == <<n, 1>>

RAdd(p, q) == IF IsNaN(p) \/ IsNaN(q) THEN NaN
              ELSE Norm(p[1] * q[2] + q[1] * p[2], p[2] * q[2])

RMul(p, q) == IF IsNaN(p) \/ IsNaN(q) THEN NaN
              ELSE Norm(p[1] * q[1], p[2] * q[2])

RNeg(p) == <<-p[1], p[2]>>

RDiv(p, q) == IF IsNaN(p) \/ IsNaN(q) THEN NaN
              ELSE Norm(p[1] * q[2], p[2] * q[1])

RGt(p, q) == ~IsNaN(p) /\ ~IsNaN(q) /\ p[1] * q[2] > q[1] * p[2]

RECURSIVE RSum(_)
RSum(s) == IF s = <<>> THEN R(0) ELSE RAdd(Head(s), RSum(Tail(s)))

(***************************************************************************)
(* Arrays: [shape, data], data in row-major order.                         *)
(***************************************************************************)
RECURSIVE Size(_)
Size(shape) == IF shape = <<>> THEN 1 ELSE Head(shape) * Size(Tail(shape))

\* (the data are held as an evaluated tuple)
Arr(shape, data) == [shape |-> shape, data |-> data \o <<>>]

\* jnp.reshape(a, (n, -1)): the data are kept, the second dimension is inferred.
Reshape2(a, n) == Arr(<<n, Size(a.shape) \div n>>, a.data)

\* jnp.reshape(a, shape)
Reshape(a, shape) == Arr(shape, a.data)

\* a[n] along the leading axis (1-based)
Slice(a, n) ==
  LET sz == Size(Tail(a.shape))
  IN Arr(Tail(a.shape), SubSeq(a.data, (n - 1) * sz + 1, n * sz))

\* the batched array whose n-th slice is rows[n]; shape is the slices' shape
Stack(rows, shape) ==
  LET sz == Size(shape)
  IN Arr(<<Len(rows)>> \o shape,
         [i \in 1..(Len(rows) * sz) |->
            rows[((i - 1) \div sz) + 1].data[((i - 1) % sz) + 1]])

\* jnp.mean(a, axis=0): sum over the leading axis divided by its length
MeanAxis0(a) ==
  LET n  == Head(a.shape)
      sz == Size(Tail(a.shape))
  IN Arr(Tail(a.shape),
         [e \in 1..sz |->
            RDiv(RSum([k \in 1..n |-> a.data[(k - 1) * sz + e]]), R(n))])

\* jnp.mean(v) of a vector
Mean(v) == RDiv(RSum(v.data), R(Len(v.data)))

\* S + sigma * samples, S broadcast along the leading (sample) axis
AddScaled(S, sigma, z) ==
  LET sz == Size(S.shape)
  IN Arr(z.shape,
         [i \in 1..Len(z.data) |->
            RAdd(S.data[((i - 1) % sz) + 1], RMul(sigma, z.data[i]))])

\* jnp.einsum('nd,nd->n', x, y)
EinsumRowDot(x, y) ==
  LET n == x.shape[1]
      d == x.shape[2]
  IN Arr(<<n>>,
         [k \in 1..n |->
            RSum([e \in 1..d |->
              RMul(x.data[(k - 1) * d + e], y.data[(k - 1) * d + e])])])

\* jnp.einsum('nd,ne,e->d', x, y, t)
EinsumJvp(x, y, t) ==
  LET n == x.shape[1]
      d == x.shape[2]
      m == y.shape[2]
  IN Arr(<<d>>,
         [j \in 1..d |->
            RSum([k \in 1..n |->
              RSum([e \in 1..m |->
                RMul(RMul(x.data[(k - 1) * d + j], y.data[(k - 1) * m + e]),
                     t.data[e])])])])

\* c * a, elementwise
Scale(c, a) == Arr(a.shape, [i \in 1..Len(a.data) |-> RMul(c, a.data[i])])

\* jnp.sum(a * b) for arrays of one shape
SumProd(a, b) == RSum([i \in 1..Len(a.data) |-> RMul(a.data[i], b.data[i])])

\* jnp.zeros_like(a)
ZerosLike(a) == Arr(a.shape, [i \in 1..Len(a.data) |-> R(0)])

(***************************************************************************)
(* Noise model: class Normal.                                              *)
(***************************************************************************)
\* a sampler that advances a global generator instead of using only the key
Normal_sample_stateful(seed, sample_shape) ==
  Arr(sample_shape,
      [i \in 1..Size(sample_shape) |->
         LET sd == IF kept = None THEN seed ELSE seed + 1
         IN R((((sd + 1) * i + sd) % 3) - 1)])

\* jax.random.normal(seed, sample_shape): a pure function of the key and the
\* shape; the variates are drawn from {-1, 0, 1}.
Normal_sample(seed, sample_shape) ==
  Arr(sample_shape,
      [i \in 1..Size(sample_shape) |-> R((((seed + 1) * i + seed) % 3) - 1)])

\* -0.5 * inputs ** 2
Normal_log_prob(x) == RMul(<<-1, 2>>, RMul(x, x))

\* jax.grad(noise.log_prob) at x; the central difference is exact for the
\* quadratic log-density.
Grad_log_prob(x) ==
  RDiv(RAdd(Normal_log_prob(RAdd(x, R(1))),
            RNeg(Normal_log_prob(RAdd(x, R(-1))))),
       R(2))

(***************************************************************************)
(* The wrapped solvers (external collaborators, pure functions).           *)
(***************************************************************************)
Solvers == {"thresh", "rowsum"}
CSolvers == {"cthresh", "cmask"}

Ind(b) == IF b THEN R(1) ELSE R(0)

\* rows of an array of shape <<r, c>>
RowCount(x, r) ==
  LET c == x.shape[2]
  IN RSum([j \in 1..c |-> Ind(RGt(x.data[(r - 1) * c + j], R(0)))])

\* solver(S_single, ncc) -> (A_single, M_single)
solver(name, x, ncc) ==
  IF name = "thresh"
  THEN LET A == Arr(x.shape, [i \in 1..Len(x.data) |-> Ind(RGt(x.data[i], R(ncc)))])
       IN [A |-> A,
           M |-> Arr(x.shape, [i \in 1..Len(x.data) |-> RAdd(R(1), RNeg(A.data[i]))])]
  ELSE \* "rowsum": the connectivity output has one entry per row of S
       [A |-> Arr(x.shape, [i \in 1..Len(x.data) |-> Ind(RGt(x.data[i], R(0)))]),
        M |-> Arr(<<x.shape[1]>>, [r \in 1..x.shape[1] |-> RowCount(x, r)])]

\* csolver(S_single, ncc, C) -> (A_single, M_single)
csolver(name, x, ncc, C) ==
  IF name = "cthresh"
  THEN solver("thresh", x, ncc)
  ELSE \* "cmask": entries excluded by the constraint matrix are never linked
       LET A == Arr(x.shape,
                    [i \in 1..Len(x.data) |->
                       RMul(Ind(RGt(x.data[i], R(ncc))), C.data[i])])
       IN [A |-> A,
           M |-> Arr(x.shape, [i \in 1..Len(x.data) |-> RAdd(R(1), RNeg(A.data[i]))])]

\* shapes of the solver outputs for an input of shape sh (known to vmap by tracing)
AShape(name, sh) == sh
MShape(name, sh) == IF name = "rowsum" THEN <<sh[1]>> ELSE sh

(***************************************************************************)
(* Inputs.                                                                 *)
(***************************************************************************)
SShape == <<1, 2>>
SSet == {Arr(SShape, <<R(0), R(1)>>), Arr(SShape, <<R(1), R(1)>>)}
TangentSet == {Arr(SShape, <<R(1), R(0)>>), Arr(SShape, <<R(1), R(-1)>>)}
CSet == {Arr(SShape, <<R(1), R(1)>>), Arr(SShape, <<R(1), R(0)>>)}
NccSet == {0, 1}
RngSet == {0, 1}
SigmaSet == {<<1, 2>>, R(0), R(-1)}
NumSamplesSet == 0..MaxSamples

(***************************************************************************)
(* make_pert_solver / make_pert_csolver: the closure they return.          *)
(***************************************************************************)
Init ==
  /\ wrapper = None
  /\ pc = "idle"
  /\ args = None
  /\ samples = None
  /\ results = <<>>
  /\ out = None
  /\ kept = None

\* No argument is validated: every num_samples and sigma is accepted.
make_pert_solver(s, num_samples, sigma) ==
  /\ wrapper = None
  /\ wrapper' = [kind |-> "solver", solver |-> s,
                 num_samples |-> num_samples, sigma |-> sigma]
  /\ UNCHANGED <<pc, args, samples, results, out, kept>>

make_pert_csolver(s, num_samples, sigma, use_bias) ==
  /\ wrapper = None
  /\ wrapper' = [kind |-> "csolver", solver |-> s,
                 num_samples |-> num_samples, sigma |-> sigma,
                 use_bias |-> use_bias]
  /\ UNCHANGED <<pc, args, samples, results, out, kept>>

Ready == wrapper # None /\ pc = "idle"

Pending == (1..wrapper.num_samples) \ DOMAIN results

\* the per-sample outputs gathered by vmap into batched arrays
Ak_z == Stack([n \in 1..wrapper.num_samples |-> results[n].A],
              AShape(wrapper.solver, args.S.shape))
Mk_z == Stack([n \in 1..wrapper.num_samples |-> results[n].M],
              MShape(wrapper.solver, args.S.shape))

\* invocations that take the next slice of a shared cursor
vmap_in_shared(x, n) == Slice(x, Cardinality(DOMAIN results) + 1)

\* the slice of the batched input that vmap hands to invocation n
vmap_in(x, n) == Slice(x, n)

\* The call is over: its sample batch and solver outputs are discarded, and the
\* caller may hold on to one returned forward value.
call_done ==
  /\ pc \in {"returned", "raised"}
  /\ pc' = "idle"
  /\ args' = None
  /\ samples' = None
  /\ results' = <<>>
  /\ out' = None
  /\ kept' \in (IF pc = "returned" /\ args.op = "forward" /\ kept = None
                THEN {kept, [args |-> args, out |-> out]}
                ELSE {kept})
  /\ UNCHANGED wrapper

(***************************************************************************)
(* make_pert_solver.forward_pert(S, ncc, rng)                              *)
(***************************************************************************)
forward_pert_samples(w, S, rng) ==
  Normal_sample(rng, <<w.num_samples>> \o S.shape)

\* Akeps = jnp.mean(Ak_z, axis=0)
forward_pert_Akeps(A_z) == MeanAxis0(A_z)

\* Mkeps = jnp.mean(Mk_z, axis=0)
forward_pert_Mkeps(M_z) == MeanAxis0(M_z)

\* the value taken at the unperturbed input
forward_pert_Fkeps_nonoise(w, S, smp, A_z) ==
  Mean(EinsumRowDot(Reshape2(AddScaled(S, R(0), smp), w.num_samples),
                    Reshape2(A_z, w.num_samples)))

\* Fkeps = jnp.mean(einsum('nd,nd->n', reshape(S + sigma*samples), reshape(Ak_z)))
forward_pert_Fkeps(w, S, smp, A_z) ==
  Mean(EinsumRowDot(Reshape2(AddScaled(S, w.sigma, smp), w.num_samples),
                    Reshape2(A_z, w.num_samples)))

forward_pert(S, ncc, rng) ==
  /\ Ready
  /\ wrapper.kind = "solver"
  /\ pc' = "forward"
  /\ args' = [op |-> "forward", S |-> S, ncc |-> ncc, rng |-> rng]
  /\ samples' = forward_pert_samples(wrapper, S, rng)
  /\ results' = <<>>
  /\ out' = None
  /\ UNCHANGED <<wrapper, kept>>

\* one invocation of jax.vmap(solver, in_axes=(0, None))
forward_pert_vmap(n) ==
  /\ pc = "forward"
  /\ wrapper.kind = "solver"
  /\ n \in Pending
  /\ LET x == vmap_in(AddScaled(args.S, wrapper.sigma, samples), n)
         r == solver(wrapper.solver, x, args.ncc)
     IN results' = results @@ (n :> [passed |-> <<x, args.ncc>>,
                                     A |-> r.A, M |-> r.M])
  /\ UNCHANGED <<wrapper, pc, args, samples, out, kept>>

\* The batch is empty when num_samples = 0: the means are 0/0, and whether
\* reshape(., (0, -1)) raises depends on the array library's version.
forward_pert_return ==
  /\ pc = "forward"
  /\ wrapper.kind = "solver"
  /\ Pending = {}
  /\ \/ /\ wrapper.num_samples > 0
        /\ pc' = "returned"
        /\ out' = <<forward_pert_Akeps(Ak_z),
                    forward_pert_Fkeps(wrapper, args.S, samples, Ak_z),
                    forward_pert_Mkeps(Mk_z)>>
     \/ /\ wrapper.num_samples = 0
        /\ pc' = "returned"
        /\ out' = <<forward_pert_Akeps(Ak_z), NaN, forward_pert_Mkeps(Mk_z)>>
     \/ /\ wrapper.num_samples = 0
        /\ pc' = "raised"
        /\ out' = None
  /\ UNCHANGED <<wrapper, args, samples, results, kept>>

(***************************************************************************)
(* make_pert_solver.pert_jvp(tangent, _, S, ncc, rng)                      *)
(***************************************************************************)
\* a rule that draws its batch from a different key than forward
pert_jvp_samples_split(w, S, rng) ==
  Normal_sample(rng + 1, <<w.num_samples>> \o S.shape)

pert_jvp_samples(w, S, rng) ==
  Normal_sample(rng, <<w.num_samples>> \o S.shape)

\* the score without its sign change
pert_jvp_nabla_unnegated(smp) ==
  Arr(<<Size(smp.shape)>>,
      [i \in 1..Size(smp.shape) |-> Grad_log_prob(smp.data[i])])

\* nabla_z_flat = -jax.vmap(jax.grad(noise.log_prob))(samples.reshape([-1]))
pert_jvp_nabla(smp) ==
  Arr(<<Size(smp.shape)>>,
      [i \in 1..Size(smp.shape) |-> RNeg(Grad_log_prob(smp.data[i]))])

\* 1.0 / (num_samples * sigma)
pert_jvp_factor(w) == RDiv(R(1), RMul(R(w.num_samples), w.sigma))

\* jvp_argmax
pert_jvp_argmax(w, S, smp, A_z, tangent) ==
  Reshape(Scale(pert_jvp_factor(w),
                EinsumJvp(Reshape2(A_z, w.num_samples),
                          Reshape2(pert_jvp_nabla(smp), w.num_samples),
                          Reshape(tangent, <<Size(tangent.shape)>>))),
          S.shape)

\* jvp_max = jnp.sum(jnp.mean(Ak_z, axis=0) * tangent)
pert_jvp_max(A_z, tangent) == SumProd(MeanAxis0(A_z), tangent)

\* a rule that lets the tangent through to Mkeps
pert_jvp_dM_passthrough(tangent) == tangent

\* the tangent returned for Mkeps
pert_jvp_dM(tangent) == ZerosLike(tangent)

pert_jvp(tangent, S, ncc, rng) ==
  /\ Ready
  /\ wrapper.kind = "solver"
  /\ pc' = "jvp"
  /\ args' = [op |-> "jvp", S |-> S, ncc |-> ncc, rng |-> rng,
              tangent |-> tangent]
  /\ samples' = pert_jvp_samples(wrapper, S, rng)
  /\ results' = <<>>
  /\ out' = None
  /\ UNCHANGED <<wrapper, kept>>

pert_jvp_vmap(n) ==
  /\ pc = "jvp"
  /\ wrapper.kind = "solver"
  /\ n \in Pending
  /\ LET x == vmap_in(AddScaled(args.S, wrapper.sigma, samples), n)
         r == solver(wrapper.solver, x, args.ncc)
     IN results' = results @@ (n :> [passed |-> <<x, args.ncc>>,
                                     A |-> r.A, M |-> r.M])
  /\ UNCHANGED <<wrapper, pc, args, samples, out, kept>>

\* 1.0 / (num_samples * sigma) is Python arithmetic: a zero product raises
\* ZeroDivisionError.
pert_jvp_return ==
  /\ pc = "jvp"
  /\ wrapper.kind = "solver"
  /\ Pending = {}
  /\ IF RMul(R(wrapper.num_samples), wrapper.sigma) = R(0)
     THEN pc' = "raised" /\ out' = None
     ELSE /\ pc' = "returned"
          /\ out' = <<pert_jvp_argmax(wrapper, args.S, samples, Ak_z, args.tangent),
                      pert_jvp_max(Ak_z, args.tangent),
                      pert_jvp_dM(args.tangent)>>
  /\ UNCHANGED <<wrapper, args, samples, results, kept>>

\* forward_pert.defjvps(pert_jvp, None, None): one rule per argument (S, ncc, rng)
forward_pert_defjvps == <<"pert_jvp", "None", "None">>

(***************************************************************************)
(* make_pert_csolver.forward_pert(S, ncc, C, rng)                          *)
(***************************************************************************)
c_forward_pert_samples(w, S, rng) ==
  Normal_sample(rng, <<w.num_samples>> \o S.shape)

\* AkMeps = jnp.mean(AkM_z, axis=0)
c_forward_pert_Akeps(A_z) == MeanAxis0(A_z)

\* MkMeps = jnp.mean(MkM_z, axis=0)
c_forward_pert_Mkeps(M_z) == MeanAxis0(M_z)

\* FkMeps
c_forward_pert_Fkeps(w, S, smp, A_z) ==
  Mean(EinsumRowDot(Reshape2(AddScaled(S, w.sigma, smp), w.num_samples),
                    Reshape2(A_z, w.num_samples)))

c_forward_pert(S, ncc, C, rng) ==
  /\ Ready
  /\ wrapper.kind = "csolver"
  /\ pc' = "forward"
  /\ args' = [op |-> "forward", S |-> S, ncc |-> ncc, C |-> C, rng |-> rng]
  /\ samples' = c_forward_pert_samples(wrapper, S, rng)
  /\ results' = <<>>
  /\ out' = None
  /\ UNCHANGED <<wrapper, kept>>

\* one invocation of jax.vmap(csolver, in_axes=(0, None, None)); use_bias is
\* not among the arguments
c_forward_pert_vmap(n) ==
  /\ pc = "forward"
  /\ wrapper.kind = "csolver"
  /\ n \in Pending
  /\ LET x == vmap_in(AddScaled(args.S, wrapper.sigma, samples), n)
         r == csolver(wrapper.solver, x, args.ncc, args.C)
     IN results' = results @@ (n :> [passed |-> <<x, args.ncc, args.C>>,
                                     A |-> r.A, M |-> r.M])
  /\ UNCHANGED <<wrapper, pc, args, samples, out, kept>>

c_forward_pert_return ==
  /\ pc = "forward"
  /\ wrapper.kind = "csolver"
  /\ Pending = {}
  /\ \/ /\ wrapper.num_samples > 0
        /\ pc' = "returned"
        /\ out' = <<c_forward_pert_Akeps(Ak_z),
                    c_forward_pert_Fkeps(wrapper, args.S, samples, Ak_z),
                    c_forward_pert_Mkeps(Mk_z)>>
     \/ /\ wrapper.num_samples = 0
        /\ pc' = "returned"
        /\ out' = <<c_forward_pert_Akeps(Ak_z), NaN, c_forward_pert_Mkeps(Mk_z)>>
     \/ /\ wrapper.num_samples = 0
        /\ pc' = "raised"
        /\ out' = None
  /\ UNCHANGED <<wrapper, args, samples, results, kept>>

(***************************************************************************)
(* make_pert_csolver.pert_jvp(tangent, _, S, ncc, C, rng)                  *)
(***************************************************************************)
c_pert_jvp_samples(w, S, rng) ==
  Normal_sample(rng, <<w.num_samples>> \o S.shape)

c_pert_jvp_nabla(smp) ==
  Arr(<<Size(smp.shape)>>,
      [i \in 1..Size(smp.shape) |-> RNeg(Grad_log_prob(smp.data[i]))])

\* a factor that forgets the batch size
c_pert_jvp_factor_nosamples(w) == RDiv(R(1), w.sigma)

c_pert_jvp_factor(w) == RDiv(R(1), RMul(R(w.num_samples), w.sigma))

c_pert_jvp_argmax(w, S, smp, A_z, tangent) ==
  Reshape(Scale(c_pert_jvp_factor(w),
                EinsumJvp(Reshape2(A_z, w.num_samples),
                          Reshape2(c_pert_jvp_nabla(smp), w.num_samples),
                          Reshape(tangent, <<Size(tangent.shape)>>))),
          S.shape)

c_pert_jvp_max(A_z, tangent) == SumProd(MeanAxis0(A_z), tangent)

c_pert_jvp_dM(tangent) == ZerosLike(tangent)

c_pert_jvp(tangent, S, ncc, C, rng) ==
  /\ Ready
  /\ wrapper.kind = "csolver"
  /\ pc' = "jvp"
  /\ args' = [op |-> "jvp", S |-> S, ncc |-> ncc, C |-> C, rng |-> rng,
              tangent |-> tangent]
  /\ samples' = c_pert_jvp_samples(wrapper, S, rng)
  /\ results' = <<>>
  /\ out' = None
  /\ UNCHANGED <<wrapper, kept>>

c_pert_jvp_vmap(n) ==
  /\ pc = "jvp"
  /\ wrapper.kind = "csolver"
  /\ n \in Pending
  /\ LET x == vmap_in(AddScaled(args.S, wrapper.sigma, samples), n)
         r == csolver(wrapper.solver, x, args.ncc, args.C)
     IN results' = results @@ (n :> [passed |-> <<x, args.ncc, args.C>>,
                                     A |-> r.A, M |-> r.M])
  /\ UNCHANGED <<wrapper, pc, args, samples, out, kept>>

c_pert_jvp_return ==
  /\ pc = "jvp"
  /\ wrapper.kind = "csolver"
  /\ Pending = {}
  /\ IF RMul(R(wrapper.num_samples), wrapper.sigma) = R(0)
     THEN pc' = "raised" /\ out' = None
     ELSE /\ pc' = "returned"
          /\ out' = <<c_pert_jvp_argmax(wrapper, args.S, samples, Ak_z, args.tangent),
                      c_pert_jvp_max(Ak_z, args.tangent),
                      c_pert_jvp_dM(args.tangent)>>
  /\ UNCHANGED <<wrapper, args, samples, results, kept>>

\* forward_pert.defjvps(pert_jvp, None, None, None): arguments (S, ncc, C, rng)
c_forward_pert_defjvps == <<"pert_jvp", "None", "None", "None">>

(***************************************************************************)
(* Specification.                                                          *)
(***************************************************************************)
Next ==
  \/ \E s \in Solvers, n \in NumSamplesSet, sg \in SigmaSet :
       make_pert_solver(s, n, sg)
  \/ \E s \in CSolvers, n \in NumSamplesSet, sg \in SigmaSet, b \in BOOLEAN :
       make_pert_csolver(s, n, sg, b)
  \/ \E S \in SSet, ncc \in NccSet, rng \in RngSet : forward_pert(S, ncc, rng)
  \/ \E n \in 1..(MaxSamples + 1) : forward_pert_vmap(n)
  \/ forward_pert_return
  \/ \E t \in TangentSet, S \in SSet, ncc \in NccSet, rng \in RngSet :
       pert_jvp(t, S, ncc, rng)
  \/ \E n \in 1..(MaxSamples + 1) : pert_jvp_vmap(n)
  \/ pert_jvp_return
  \/ \E S \in SSet, ncc \in NccSet, C \in CSet, rng \in RngSet :
       c_forward_pert(S, ncc, C, rng)
  \/ \E n \in 1..(MaxSamples + 1) : c_forward_pert_vmap(n)
  \/ c_forward_pert_return
  \/ \E t \in TangentSet, S \in SSet, ncc \in NccSet, C \in CSet, rng \in RngSet :
       c_pert_jvp(t, S, ncc, C, rng)
  \/ \E n \in 1..(MaxSamples + 1) : c_pert_jvp_vmap(n)
  \/ c_pert_jvp_return
  \/ call_done

Spec == Init /\ [][Next]_vars

(***************************************************************************)
(* The quantities the properties speak of, written out per sample and per  *)
(* entry from the call's inputs.                                           *)
(***************************************************************************)
NumS == wrapper.num_samples
Sz == Size(args.S.shape)
Constrained == wrapper # None /\ wrapper.kind = "csolver"
ForwardReturned == pc = "returned" /\ args.op = "forward"
JvpReturned == pc = "returned" /\ args.op = "jvp"

\* z_n[e], the e-th entry of the n-th noise sample drawn from rng
Znoise(n, e) ==
  Normal_sample(args.rng, <<NumS>> \o args.S.shape).data[(n - 1) * Sz + e]

\* S + sigma * z_n
Xin(n) ==
  Arr(args.S.shape,
      [e \in 1..Sz |-> RAdd(args.S.data[e], RMul(wrapper.sigma, Znoise(n, e)))])

\* (A_n, M_n) = solver(S + sigma * z_n, ncc[, C])
Sol(n) == IF Constrained
          THEN csolver(wrapper.solver, Xin(n), args.ncc, args.C)
          ELSE solver(wrapper.solver, Xin(n), args.ncc)

SameInputs(a, b) ==
  /\ a.S = b.S
  /\ a.ncc = b.ncc
  /\ a.rng = b.rng
  /\ Constrained => a.C = b.C

\* C1: a returned forward value is (mean of A_n, mean of sum((S + sigma z_n) * A_n),
\* mean of M_n) over the num_samples solver outputs on S + sigma z_n.
C1_ForwardIsMonteCarloMean ==
  (ForwardReturned /\ NumS > 0) =>
    /\ out[1].shape = args.S.shape
    /\ \A e \in 1..Sz :
         RMul(R(NumS), out[1].data[e]) = RSum([n \in 1..NumS |-> Sol(n).A.data[e]])
    /\ \A e \in 1..Len(out[3].data) :
         RMul(R(NumS), out[3].data[e]) = RSum([n \in 1..NumS |-> Sol(n).M.data[e]])
    /\ RMul(R(NumS), out[2]) =
         RSum([n \in 1..NumS |->
           RSum([e \in 1..Sz |-> RMul(Xin(n).data[e], Sol(n).A.data[e])])])

C1_Witness ==
  /\ ForwardReturned
  /\ NumS = 2
  /\ wrapper.sigma = <<1, 2>>
  /\ Sol(1).A # Sol(2).A
  /\ out[2] # R(0)

\* C2: a forward call with the inputs of an earlier forward call returns the value
\* the earlier call returned, whatever calls were made in between.
C2_Determinism ==
  (ForwardReturned /\ kept # None /\ SameInputs(kept.args, args)) =>
    kept.out = out

C2_Witness ==
  /\ ForwardReturned
  /\ kept # None
  /\ SameInputs(kept.args, args)
  /\ NumS = 2
  /\ wrapper.sigma # R(0)

\* C3: the first component of the derivative rule is
\* (1 / (num_samples * sigma)) * sum_n A_n * (z_n . flatten(t)), in S's shape.
C3_ArgmaxJvp ==
  JvpReturned =>
    /\ out[1].shape = args.S.shape
    /\ \A d \in 1..Sz :
         out[1].data[d] =
           RMul(RDiv(R(1), RMul(R(NumS), wrapper.sigma)),
                RSum([n \in 1..NumS |->
                  RMul(Sol(n).A.data[d],
                       RSum([e \in 1..Sz |->
                         RMul(Znoise(n, e), args.tangent.data[e])]))]))

C3_Witness ==
  /\ JvpReturned
  /\ NumS = 2
  /\ \E d \in 1..Sz : out[1].data[d] # R(0)

\* C4: the second component of the derivative rule is sum(A_eps * t) with A_eps the
\* first output forward returned for the same inputs.
C4_MaxJvpUsesForwardMean ==
  (JvpReturned /\ kept # None /\ SameInputs(kept.args, args)) =>
    out[2] = RSum([e \in 1..Sz |-> RMul(kept.out[1].data[e], args.tangent.data[e])])

C4_Witness ==
  /\ JvpReturned
  /\ kept # None
  /\ SameInputs(kept.args, args)
  /\ NumS = 2
  /\ \E e \in 1..Sz : kept.out[1].data[e][2] = 2
  /\ out[2] # R(0)

\* C5: the derivative returned for M_eps is zero in every entry, and the rules
\* registered for ncc, C and rng are absent.
C5_ZeroDerivative ==
  /\ JvpReturned => \A i \in 1..Len(out[3].data) : out[3].data[i] = R(0)
  /\ wrapper # None =>
       LET rules == IF Constrained THEN c_forward_pert_defjvps
                    ELSE forward_pert_defjvps
       IN /\ Len(rules) = (IF Constrained THEN 4 ELSE 3)
          /\ \A k \in 2..Len(rules) : rules[k] = "None"

C5_Witness ==
  /\ JvpReturned
  /\ \E i \in 1..Sz : args.tangent.data[i] # R(0)
  /\ \E d \in 1..Sz : out[1].data[d] # R(0)

\* C6: the derivative rule's triple has the shapes of forward's output: A_eps's
\* shape, a scalar, and M_eps's shape.
C6_JvpMatchesForwardStructure ==
  JvpReturned =>
    /\ out[1].shape = MeanAxis0(Ak_z).shape
    /\ out[2] \in Int \X Int
    /\ out[3].shape = MeanAxis0(Mk_z).shape

\* C7: no forward evaluation or derivative rule runs under a wrapper configured
\* with sigma <= 0 or num_samples <= 0.
C7_ConfigurationRejected ==
  pc # "idle" => (wrapper.num_samples > 0 /\ RGt(wrapper.sigma, R(0)))

\* the unconstrained wrapper's value for the current inputs
U_w == [kind |-> "solver", solver |-> "thresh",
        num_samples |-> NumS, sigma |-> wrapper.sigma]
U_x == AddScaled(args.S, U_w.sigma, forward_pert_samples(U_w, args.S, args.rng))
U_xj == AddScaled(args.S, U_w.sigma, pert_jvp_samples(U_w, args.S, args.rng))
U_A(x) == Stack([n \in 1..NumS |-> solver("thresh", Slice(x, n), args.ncc).A],
                args.S.shape)
U_M(x) == Stack([n \in 1..NumS |-> solver("thresh", Slice(x, n), args.ncc).M],
                args.S.shape)

\* C8: with a csolver that ignores C and equals the solver, the constrained wrapper
\* returns the unconstrained wrapper's forward and derivative-rule values.
C8_Parity ==
  (Constrained /\ wrapper.solver = "cthresh" /\ pc = "returned" /\ NumS > 0) =>
    IF args.op = "forward"
    THEN out = <<forward_pert_Akeps(U_A(U_x)),
                 forward_pert_Fkeps(U_w, args.S,
                                    forward_pert_samples(U_w, args.S, args.rng),
                                    U_A(U_x)),
                 forward_pert_Mkeps(U_M(U_x))>>
    ELSE out = <<pert_jvp_argmax(U_w, args.S,
                                 pert_jvp_samples(U_w, args.S, args.rng),
                                 U_A(U_xj), args.tangent),
                 pert_jvp_max(U_A(U_xj), args.tangent),
                 pert_jvp_dM(args.tangent)>>

C8_Witness ==
  /\ Constrained
  /\ wrapper.solver = "cthresh"
  /\ JvpReturned
  /\ NumS = 2
  /\ args.C.data[2] = R(0)
  /\ \E d \in 1..Sz : out[1].data[d] # R(0)

\* C9: every per-sample invocation of the constrained solver is passed the
\* configured use_bias.
C9_UseBiasForwarded ==
  (wrapper # None /\ Constrained) =>
    \A n \in DOMAIN results :
      /\ Len(results[n].passed) = 4
      /\ results[n].passed[4] = wrapper.use_bias

\* the forward value recomputed on the sample batch permuted by p
PermutedForward(p) ==
  LET Z  == Normal_sample(args.rng, <<NumS>> \o args.S.shape)
      Zp == Stack([n \in 1..NumS |-> Slice(Z, p[n])], args.S.shape)
      X  == AddScaled(args.S, wrapper.sigma, Zp)
      r(n) == IF Constrained
              THEN csolver(wrapper.solver, Slice(X, n), args.ncc, args.C)
              ELSE solver(wrapper.solver, Slice(X, n), args.ncc)
      Az == Stack([n \in 1..NumS |-> r(n).A], AShape(wrapper.solver, args.S.shape))
      Mz == Stack([n \in 1..NumS |-> r(n).M], MShape(wrapper.solver, args.S.shape))
  IN IF Constrained
     THEN <<c_forward_pert_Akeps(Az), c_forward_pert_Fkeps(wrapper, args.S, Zp, Az),
            c_forward_pert_Mkeps(Mz)>>
     ELSE <<forward_pert_Akeps(Az), forward_pert_Fkeps(wrapper, args.S, Zp, Az),
            forward_pert_Mkeps(Mz)>>

Perms == {p \in [1..NumS -> 1..NumS] : \A i, j \in 1..NumS : p[i] = p[j] => i = j}

\* C10: each invocation receives its own perturbed input and the unchanged ncc (and
\* C), in whatever order the invocations run, and the returned value is the same
\* for every permutation of the sample batch.
C10_NoOrderingDependency ==
  /\ pc \in {"forward", "jvp"} =>
       \A n \in DOMAIN results :
         results[n].passed = IF Constrained THEN <<Xin(n), args.ncc, args.C>>
                             ELSE <<Xin(n), args.ncc>>
  /\ (ForwardReturned /\ NumS > 0) =>
       \A p \in Perms : PermutedForward(p) = out

C10_Witness ==
  /\ pc = "forward"
  /\ NumS = 2
  /\ DOMAIN results = {2}
  /\ Xin(1) # Xin(2)

====
